---- MODULE Spec2Model ----
(***************************************************************************)
(* A model of main.py: a FastAPI application with two plain routes         *)
(* (POST /token, GET /protected) and a GraphQL surface (queries            *)
(* listArticles, getArticle, listCategories; mutations createArticle,      *)
(* createCategory, registerUser) over three relational tables.             *)
(*                                                                         *)
(* Every request is a coroutine on one asyncio event loop.  A request      *)
(* takes one step per stretch of code between two suspension points; a     *)
(* synchronous library call made from a coroutine (SentenceTransformer     *)
(* encode, bcrypt hashpw) holds the event loop from its beginning to its   *)
(* end.  The store is PostgreSQL behind SQLAlchemy: it enforces the unique *)
(* and foreign-key constraints declared on the tables, draws primary keys  *)
(* from a sequence per table, and may be unreachable on any call.          *)
(***************************************************************************)
EXTENDS Integers, Sequences, FiniteSets, TLC

\* ---------------------------------------------------------------- bounds
\* Number of requests in flight at once.
MaxRequests == 2
\* Cap on the primary keys each table's sequence hands out.
MaxId == 2
\* Length of the embedding vector in the model.
EmbeddingDim == 2

Requests == 1..MaxRequests

\* ---------------------------------------------------------------- inputs
Usernames == {"alice", "bob"}
Passwords == {"pw1", "pw2"}
Salts == {"saltA", "saltB"}
CategoryNames == {"news", "tech"}
Titles == {"T"}
\* Article text, as the sequence of token ids the embedding model reads.
Contents == {<<1>>, <<2, 1>>}
\* Ids a client may name: one more than the store can hand out.
ClientIds == 1..(MaxId + 1)

\* ---------------------------------------------------------------- configuration
SECRET_KEY == "your_secret_key"
ALGORITHM == "HS256"
\* A signing key that is not the application's.
ForeignKeys == {"attacker_key"}

\* ---------------------------------------------------------------- password service
\* bcrypt: the hash carries its salt; the digest is a function of salt and
\* password.
BcryptHashpw(password, salt) ==
    [salt |-> salt, digest |-> <<salt, password>>]

\* A check that looks at the salt alone.
verify_password_SaltOnly(password, hashed) ==
    BcryptHashpw(password, hashed.salt).salt = hashed.salt

\* bcrypt.checkpw: rehash the candidate under the stored salt and compare.
verify_password(password, hashed) ==
    BcryptHashpw(password, hashed.salt) = hashed

\* ---------------------------------------------------------------- token service
\* The HS256 signature of a claims mapping under a key.
Hs256(claims, key) == [key |-> key, alg |-> ALGORITHM, msg |-> claims]

\* jwt.encode: header, claims, signature.
JwtEncode(claims, key) == <<ALGORITHM, claims, Hs256(claims, key)>>

create_access_token(data) == JwtEncode(data, SECRET_KEY)

\* A claims mapping with no entries.
EmptyClaims == [k \in {} |-> ""]

\* A string that is not three JWT segments.
Garbage == <<"garbage">>

\* A decode that does not verify the signature.
JwtDecodes_Unverified(token) ==
    /\ Len(token) = 3
    /\ token[1] = ALGORITHM

\* jwt.decode succeeds: three segments, the expected algorithm, a signature
\* that verifies under SECRET_KEY.
JwtDecodes(token) ==
    /\ Len(token) = 3
    /\ token[1] = ALGORITHM
    /\ token[3] = Hs256(token[2], SECRET_KEY)

\* payload.get("sub"): the set holding the subject, empty when the claim is
\* absent.
PayloadGet(payload, k) ==
    IF k \in DOMAIN payload THEN {payload[k]} ELSE {}

\* The Authorization headers a client may send: none, or one bearer token.
Tokens ==
    {Garbage}
        \cup {JwtEncode([sub |-> u], k) : u \in Usernames, k \in {SECRET_KEY} \cup ForeignKeys}
        \cup {JwtEncode(EmptyClaims, SECRET_KEY)}
AuthHeaders == {{}} \cup {{t} : t \in Tokens}

\* ---------------------------------------------------------------- embedding service
RECURSIVE SumSeq(_)
SumSeq(s) == IF s = <<>> THEN 0 ELSE Head(s) + SumSeq(Tail(s))

\* embedding_model.encode(content).tolist(): a fixed-length numeric vector
\* determined by the content.
Encode(content) == [i \in 1..EmbeddingDim |-> (SumSeq(content) + i) % 10]

Digits == <<"0", "1", "2", "3", "4", "5", "6", "7", "8", "9">>

RECURSIVE JsonItems(_)
JsonItems(v) ==
    IF v = <<>> THEN <<>>
    ELSE IF Len(v) = 1 THEN <<Digits[Head(v) + 1]>>
    ELSE <<Digits[Head(v) + 1], ",">> \o JsonItems(Tail(v))

\* json.dumps of a list of numbers: the text, one lexeme per element.
JsonDumps(v) == <<"[">> \o JsonItems(v) \o <<"]">>

\* ---------------------------------------------------------------- state
VARIABLES
    users,       \* table users: rows [id, username, password_hash, role]
    categories,  \* table categories: rows [id, name]
    articles,    \* table articles: rows [id, title, content, vector, search_text, category_id]
    seq,         \* the last value each table's id sequence handed out
    op,          \* per request: the operation it runs ("idle" when the slot is free)
    arg,         \* per request: the operation's arguments
    pc,          \* per request: where its coroutine stands
    sess,        \* per request: its session's scope, "none", "active" (inside async with) or "closed"
    conn,        \* per request: whether its session holds a transaction on a pooled connection
    rows,        \* per request: the rows or instance its handler holds in a local
    result,      \* per request: the response
    loop,        \* the request whose synchronous call holds the event loop, 0 when none
    issued       \* the access tokens POST /token has returned so far

vars == <<users, categories, articles, seq, op, arg, pc, sess, conn, rows, result, loop, issued>>

store == <<users, categories, articles, seq>>

Tables == {"users", "categories", "articles"}

NoArgs == [k \in {} |-> ""]
NoResult == [status |-> "none"]

\* A column no value was given for.
Null == "NULL"

Init ==
    /\ users = {}
    /\ categories = {}
    /\ articles = {}
    /\ seq = [t \in Tables |-> 0]
    /\ op = [r \in Requests |-> "idle"]
    /\ arg = [r \in Requests |-> NoArgs]
    /\ pc = [r \in Requests |-> "idle"]
    /\ sess = [r \in Requests |-> "none"]
    /\ conn = [r \in Requests |-> FALSE]
    /\ rows = [r \in Requests |-> {}]
    /\ result = [r \in Requests |-> NoResult]
    /\ loop = 0
    /\ issued = {}

\* ---------------------------------------------------------------- scheduling
\* A coroutine step of request r can run: no synchronous call of another
\* request holds the event loop.
Runnable(r) == loop = 0

\* Mutations of one kind that have been received and have not yet reached the
\* store's INSERT.
Pending(o) ==
    Cardinality({r \in Requests : op[r] = o /\ pc[r] \notin {"idle", "done", "refresh"}})

\* A request for operation o with arguments a arrives on a slot that is free
\* or whose response has been sent.
Receive(r, o, a) ==
    /\ pc[r] \in {"idle", "done"}
    /\ Runnable(r)
    /\ op' = [op EXCEPT ![r] = o]
    /\ arg' = [arg EXCEPT ![r] = a]

\* The handler of r ends with response res; s and c are what its session is
\* left as.
Finish(r, res, s, c) ==
    /\ pc' = [pc EXCEPT ![r] = "done"]
    /\ result' = [result EXCEPT ![r] = res]
    /\ sess' = [sess EXCEPT ![r] = s]
    /\ conn' = [conn EXCEPT ![r] = c]

\* The handler of r goes on at position p, its session left as s and c, the
\* local holding x.
Goto(r, p, s, c, x) ==
    /\ pc' = [pc EXCEPT ![r] = p]
    /\ sess' = [sess EXCEPT ![r] = s]
    /\ conn' = [conn EXCEPT ![r] = c]
    /\ rows' = [rows EXCEPT ![r] = x]

\* async with SessionLocal() as session: yield session.  The scope a
\* session is in once the block has been entered, and once it has been left.
get_db_session == [entered |-> "active", left |-> "closed"]

\* select(User).filter(User.username == x), x being a set of at most one
\* value (empty: the Python None, which matches no row).
SelectUserByUsername(x) == {u \in users : u.username \in x}

\* ---------------------------------------------------------------- POST /token
\* async with get_db_session() as db: result = await db.execute(select ...)
login(r) ==
    /\ \E u \in Usernames, p \in Passwords :
          Receive(r, "login", [username |-> u, password |-> p])
    /\ \/ /\ Goto(r, "login_check", get_db_session.entered, TRUE,
                  SelectUserByUsername({arg'[r].username}))
          /\ result' = [result EXCEPT ![r] = NoResult]
       \/ \* the store is unreachable: the exception leaves the async with
          /\ Finish(r, [status |-> "500", error |-> "OperationalError"],
                    get_db_session.left, FALSE)
          /\ rows' = [rows EXCEPT ![r] = {}]
    /\ UNCHANGED <<store, loop, issued>>

\* user = result.scalar_one_or_none(); the credential check; the token.
login_check(r) ==
    /\ pc[r] = "login_check"
    /\ Runnable(r)
    /\ IF \E u \in rows[r] : verify_password(arg[r].password, u.password_hash)
       THEN \E u \in rows[r] :
               LET token == create_access_token([sub |-> u.username]) IN
               /\ Finish(r, [status |-> "200", access_token |-> token, token_type |-> "bearer"],
                         get_db_session.left, FALSE)
               /\ issued' = issued \cup {token}
       ELSE /\ Finish(r, [status |-> "401", error |-> "Invalid credentials"],
                      get_db_session.left, FALSE)
            /\ UNCHANGED issued
    /\ UNCHANGED <<store, op, arg, rows, loop>>

\* ---------------------------------------------------------------- GET /protected
\* oauth2_scheme, then get_current_user up to the select.
get_current_user(r) ==
    /\ \E h \in AuthHeaders : Receive(r, "protected", [authorization |-> h])
    /\ \/ \* no Authorization header: OAuth2PasswordBearer answers 401
          /\ arg'[r].authorization = {}
          /\ Finish(r, [status |-> "401", error |-> "Not authenticated"], "none", FALSE)
          /\ rows' = [rows EXCEPT ![r] = {}]
       \/ \* jwt.decode raises PyJWTError
          /\ \E t \in arg'[r].authorization : ~JwtDecodes(t)
          /\ Finish(r, [status |-> "401", error |-> "Invalid token"], "none", FALSE)
          /\ rows' = [rows EXCEPT ![r] = {}]
       \/ /\ \E t \in arg'[r].authorization :
                /\ JwtDecodes(t)
                /\ Goto(r, "auth_check", get_db_session.entered, TRUE,
                        SelectUserByUsername(PayloadGet(t[2], "sub")))
          /\ result' = [result EXCEPT ![r] = NoResult]
       \/ \* the store is unreachable
          /\ \E t \in arg'[r].authorization : JwtDecodes(t)
          /\ Finish(r, [status |-> "500", error |-> "OperationalError"],
                    get_db_session.left, FALSE)
          /\ rows' = [rows EXCEPT ![r] = {}]
    /\ UNCHANGED <<store, loop, issued>>

\* user = result.scalar_one_or_none(); 401 when None; else the route's body.
protected_route(r) ==
    /\ pc[r] = "auth_check"
    /\ Runnable(r)
    /\ IF rows[r] = {}
       THEN Finish(r, [status |-> "401", error |-> "User not found"],
                   get_db_session.left, FALSE)
       ELSE \E u \in rows[r] :
               Finish(r, [status |-> "200", message |-> "You have access", user |-> u],
                      get_db_session.left, FALSE)
    /\ UNCHANGED <<store, op, arg, rows, loop, issued>>

\* ---------------------------------------------------------------- /graphql
\* get_context: the async with block is entered and then left by the return,
\* so the session the resolvers receive in info.context["db"] has been closed
\* already.  The request goes on in the resolver of its operation.
get_context(r) ==
    /\ Goto(r, op'[r], get_db_session.left, FALSE, {})
    /\ result' = [result EXCEPT ![r] = NoResult]

\* A resolver's read through info.context["db"]: the session begins a
\* transaction on a pooled connection again and nothing ends it.
ResolveQuery(r, found) ==
    /\ pc[r] = op[r]
    /\ Runnable(r)
    /\ \/ Finish(r, [status |-> "ok", data |-> found], sess[r], TRUE)
       \/ Finish(r, [status |-> "error", error |-> "OperationalError"], sess[r], FALSE)
    /\ UNCHANGED <<store, op, arg, rows, loop, issued>>

GraphqlQuery(r) ==
    /\ \/ Receive(r, "listArticles", NoArgs)
       \/ \E i \in ClientIds : Receive(r, "getArticle", [id |-> i])
       \/ Receive(r, "listCategories", NoArgs)
    /\ get_context(r)
    /\ UNCHANGED <<store, loop, issued>>

list_articles(r) == op[r] = "listArticles" /\ ResolveQuery(r, articles)

get_article(r) ==
    op[r] = "getArticle" /\ ResolveQuery(r, {a \in articles : a.id = arg[r].id})

list_categories(r) == op[r] = "listCategories" /\ ResolveQuery(r, categories)

\* ---------------------------------------------------------------- the store's INSERT
\* An articles table without its foreign key.
CategoryExists_Unchecked(row) == TRUE

\* The constraints the tables declare.
UniqueUsername(row) == \A u \in users : u.username # row.username
UniqueName(row) == \A c \in categories : c.name # row.name
CategoryExists(row) == \E c \in categories : c.id = row.category_id

\* A key that does not follow the sequence.
NextId_Constant(t) == 1

\* The primary key the table's sequence hands to the next INSERT.
NextId(t) == seq[t] + 1

\* db.add(instance); await db.commit() from a resolver of r.  The INSERT
\* draws the row's id; a row the constraints reject raises IntegrityError
\* and the transaction is rolled back (the sequence is not: the id it drew
\* is spent); the store may also be unreachable.  After the commit the
\* session holds no connection.  `insert` is the change of the three tables
\* on success.
Commit(r, t, row, accepted, insert) ==
    \/ /\ accepted
       /\ insert
       /\ seq' = [seq EXCEPT ![t] = NextId(t)]
       /\ Goto(r, "refresh", sess[r], FALSE, {row})
       /\ UNCHANGED result
    \/ /\ ~accepted
       /\ seq' = [seq EXCEPT ![t] = NextId(t)]
       /\ Finish(r, [status |-> "error", error |-> "IntegrityError"], sess[r], FALSE)
       /\ UNCHANGED <<users, categories, articles, rows>>
    \/ /\ Finish(r, [status |-> "error", error |-> "OperationalError"], sess[r], FALSE)
       /\ UNCHANGED <<store, rows>>

\* await db.refresh(instance); return instance.  The SELECT begins a new
\* transaction that nothing ends.
Refresh(r, table) ==
    /\ pc[r] = "refresh"
    /\ Runnable(r)
    /\ \/ \E row \in rows[r] :
            /\ row \in table
            /\ Finish(r, [status |-> "ok", data |-> {row}], sess[r], TRUE)
       \/ Finish(r, [status |-> "error", error |-> "OperationalError"], sess[r], FALSE)
    /\ UNCHANGED <<store, op, arg, rows, loop, issued>>

\* ---------------------------------------------------------------- createCategory
CreateCategoryRequest(r) ==
    /\ seq["categories"] + Pending("createCategory") < MaxId
    /\ \E n \in CategoryNames : Receive(r, "createCategory", [name |-> n])
    /\ get_context(r)
    /\ UNCHANGED <<store, loop, issued>>

create_category(r) ==
    /\ pc[r] = "createCategory"
    /\ Runnable(r)
    /\ LET category == [id |-> NextId("categories"), name |-> arg[r].name] IN
       Commit(r, "categories", category, UniqueName(category),
              /\ categories' = categories \cup {category}
              /\ UNCHANGED <<users, articles>>)
    /\ UNCHANGED <<op, arg, loop, issued>>

create_category_refresh(r) == op[r] = "createCategory" /\ Refresh(r, categories)

\* ---------------------------------------------------------------- registerUser
RegisterUserRequest(r) ==
    /\ seq["users"] + Pending("registerUser") < MaxId
    /\ \E u \in Usernames, p \in Passwords :
          Receive(r, "registerUser", [username |-> u, password |-> p])
    /\ get_context(r)
    /\ UNCHANGED <<store, loop, issued>>

\* The resolver calls hash_password: bcrypt.hashpw runs synchronously on the
\* event loop's thread.
register_user(r) ==
    /\ pc[r] = "registerUser"
    /\ Runnable(r)
    /\ loop' = r
    /\ pc' = [pc EXCEPT ![r] = "hashing"]
    /\ UNCHANGED <<store, op, arg, sess, conn, rows, result, issued>>

\* bcrypt.hashpw(password, bcrypt.gensalt()) returns; the resolver builds
\* the User instance, which has no id yet (0) and no role.
hash_password(r) ==
    /\ pc[r] = "hashing"
    /\ loop = r
    /\ loop' = 0
    /\ \E salt \in Salts :
          Goto(r, "commit", sess[r], conn[r],
               {[id |-> 0, username |-> arg[r].username,
                 password_hash |-> BcryptHashpw(arg[r].password, salt), role |-> Null]})
    /\ UNCHANGED <<store, op, arg, result, issued>>

\* A commit that overwrites the users table with the new row.
register_user_commit_Overwrite(r) ==
    /\ pc[r] = "commit"
    /\ op[r] = "registerUser"
    /\ Runnable(r)
    /\ \E instance \in rows[r] :
          LET user == [instance EXCEPT !.id = NextId("users"), !.role = "user"] IN
          Commit(r, "users", user, UniqueUsername(user),
                 /\ users' = {user}
                 /\ UNCHANGED <<categories, articles>>)
    /\ UNCHANGED <<op, arg, loop, issued>>

register_user_commit(r) ==
    /\ pc[r] = "commit"
    /\ op[r] = "registerUser"
    /\ Runnable(r)
    /\ \E instance \in rows[r] :
          LET user == [instance EXCEPT !.id = NextId("users"), !.role = "user"] IN
          Commit(r, "users", user, UniqueUsername(user),
                 /\ users' = users \cup {user}
                 /\ UNCHANGED <<categories, articles>>)
    /\ UNCHANGED <<op, arg, loop, issued>>

register_user_refresh(r) == op[r] = "registerUser" /\ Refresh(r, users)

\* ---------------------------------------------------------------- createArticle
CreateArticleRequest(r) ==
    /\ seq["articles"] + Pending("createArticle") < MaxId
    /\ \E t \in Titles, c \in Contents, k \in ClientIds :
          Receive(r, "createArticle", [title |-> t, content |-> c, category_id |-> k])
    /\ get_context(r)
    /\ UNCHANGED <<store, loop, issued>>

\* The resolver is entered: embedding_model.encode runs synchronously on the
\* event loop's thread.
create_article(r) ==
    /\ pc[r] = "createArticle"
    /\ Runnable(r)
    /\ loop' = r
    /\ pc' = [pc EXCEPT ![r] = "embedding"]
    /\ UNCHANGED <<store, op, arg, sess, conn, rows, result, issued>>

\* embedding_model.encode(content).tolist() returns, or raises; the resolver
\* builds the Article instance, which has no id yet (0).
create_article_encode(r) ==
    /\ pc[r] = "embedding"
    /\ loop = r
    /\ loop' = 0
    /\ \/ /\ Goto(r, "commit", sess[r], conn[r],
                  {[id |-> 0, title |-> arg[r].title, content |-> arg[r].content,
                    vector |-> JsonDumps(Encode(arg[r].content)),
                    search_text |-> Null, category_id |-> arg[r].category_id]})
          /\ UNCHANGED result
       \/ /\ Finish(r, [status |-> "error", error |-> "RuntimeError"], sess[r], conn[r])
          /\ UNCHANGED rows
    /\ UNCHANGED <<store, op, arg, issued>>

create_article_commit(r) ==
    /\ pc[r] = "commit"
    /\ op[r] = "createArticle"
    /\ Runnable(r)
    /\ \E instance \in rows[r] :
          LET article == [instance EXCEPT !.id = NextId("articles")] IN
          Commit(r, "articles", article, CategoryExists(article),
                 /\ articles' = articles \cup {article}
                 /\ UNCHANGED <<users, categories>>)
    /\ UNCHANGED <<op, arg, loop, issued>>

create_article_refresh(r) == op[r] = "createArticle" /\ Refresh(r, articles)

\* ---------------------------------------------------------------- specifications
\* The accounts surface: registerUser, POST /token, GET /protected.
Accounts(r) ==
    \/ RegisterUserRequest(r)
    \/ register_user(r)
    \/ hash_password(r)
    \/ register_user_commit(r)
    \/ register_user_refresh(r)
    \/ login(r)
    \/ login_check(r)
    \/ get_current_user(r)
    \/ protected_route(r)

\* The content surface: categories, articles and their queries.
Content(r) ==
    \/ CreateCategoryRequest(r)
    \/ create_category(r)
    \/ create_category_refresh(r)
    \/ CreateArticleRequest(r)
    \/ create_article(r)
    \/ create_article_encode(r)
    \/ create_article_commit(r)
    \/ create_article_refresh(r)
    \/ GraphqlQuery(r)
    \/ list_articles(r)
    \/ get_article(r)
    \/ list_categories(r)

AccountsNext == \E r \in Requests : Accounts(r)

ContentNext == \E r \in Requests : Content(r)

Next == AccountsNext \/ ContentNext

Spec == Init /\ [][Next]_vars

AccountsSpec == Init /\ [][AccountsNext]_vars

ContentSpec == Init /\ [][ContentNext]_vars

\* ---------------------------------------------------------------- vocabulary of the properties
\* Request r has finished operation o and its response stands.
Done(r, o) == op[r] = o /\ pc[r] = "done"

\* The bearer tokens of header h whose signature verifies under SECRET_KEY.
SignedBearers(h) == {t \in h : Len(t) = 3 /\ t[3] = Hs256(t[2], SECRET_KEY)}

\* The subject claims those tokens carry.
BearerSubjects(h) == {t[2].sub : t \in {x \in SignedBearers(h) : "sub" \in DOMAIN x[2]}}

\* The stored users header h names.
StoredUsersNamed(h) == {u \in users : u.username \in BearerSubjects(h)}

\* Password p is the one hash h was made from.
PasswordMatches(p, h) == h.digest = <<h.salt, p>>

CategoryIds == {c.id : c \in categories}

Mutations == {"createArticle", "createCategory", "registerUser"}

\* The table a mutation writes.
TableOf(o) ==
    IF o = "registerUser" THEN users
    ELSE IF o = "createCategory" THEN categories
    ELSE articles

\* ---------------------------------------------------------------- C1
C1_Responses ==
    \A r \in Requests :
        Done(r, "protected") =>
            LET h == arg[r].authorization
                res == result[r]
            IN /\ res.status \in {"200", "401", "500"}
               /\ res.status = "200" => res.user \in StoredUsersNamed(h)
               /\ SignedBearers(h) = {} => res.status = "401"
               /\ res.status = "500" => res.error = "OperationalError"

C1_Steps ==
    \A r \in Requests :
        /\ (pc'[r] = "auth_check" /\ pc[r] # "auth_check") =>
              rows'[r] = StoredUsersNamed(arg'[r].authorization)
        /\ (pc[r] = "auth_check" /\ pc'[r] = "done") =>
              IF rows[r] = {}
              THEN result'[r].status = "401"
              ELSE result'[r].status = "200" /\ result'[r].user \in rows[r]

\* C1: GET /protected answers 200 with the authenticated user exactly when
\* the request carries a bearer token whose signature verifies and whose
\* subject names a user stored when the handler looks it up; with no header,
\* with a token that does not verify, or with a subject that names no stored
\* user it answers 401 (500 only when the store is unreachable).
C1_ProtectedIffValidStoredUser == []C1_Responses /\ [][C1_Steps]_vars

\* A 200 and, beside it, a 401 for a correctly signed token of an unknown user.
C1_Witness ==
    \E r, q \in Requests :
        /\ Done(r, "protected") /\ result[r].status = "200"
        /\ Done(q, "protected") /\ result[q].status = "401"
        /\ SignedBearers(arg[q].authorization) # {}
        /\ result[q].error = "User not found"

\* ---------------------------------------------------------------- C2
C2_Responses ==
    \A r \in Requests :
        Done(r, "login") =>
            LET a == arg[r]
                res == result[r]
            IN /\ res.status \in {"200", "401", "500"}
               /\ res.status = "200" =>
                     /\ \E u \in users :
                           /\ u.username = a.username
                           /\ PasswordMatches(a.password, u.password_hash)
                     /\ res.access_token \in issued
                     /\ BearerSubjects({res.access_token}) = {a.username}
               /\ res.status # "200" => "access_token" \notin DOMAIN res

C2_Steps ==
    \A r \in Requests :
        /\ (pc'[r] = "login_check" /\ pc[r] # "login_check") =>
              rows'[r] = {u \in users : u.username = arg'[r].username}
        /\ (pc[r] = "login_check" /\ pc'[r] = "done") =>
              IF \E u \in rows[r] : PasswordMatches(arg[r].password, u.password_hash)
              THEN /\ result'[r].status = "200"
                   /\ issued' = issued \cup {result'[r].access_token}
              ELSE /\ result'[r].status = "401"
                   /\ issued' = issued

\* C2: POST /token returns an access token exactly when the username names a
\* stored user and the password verifies against that user's hash; otherwise
\* it answers 401 and issues no token (500 only when the store is
\* unreachable).  The issued token verifies and its subject is the username
\* that logged in.
C2_LoginIffCredentials == []C2_Responses /\ [][C2_Steps]_vars

\* A successful login and, beside it, a wrong password for a stored user.
C2_Witness ==
    \E r, q \in Requests :
        /\ Done(r, "login") /\ result[r].status = "200"
        /\ Done(q, "login") /\ result[q].status = "401" /\ rows[q] # {}

\* ---------------------------------------------------------------- C3
\* C3: registerUser with a username that is already stored fails with
\* ConflictError, no other kind of fault (the store being unreachable aside),
\* and no two stored users share a username.
C3_DuplicateIsConflictError ==
    /\ \A r \in Requests :
          (/\ Done(r, "registerUser")
           /\ result[r].status = "error"
           /\ result[r].error # "OperationalError") => result[r].error = "ConflictError"
    /\ \A u, v \in users : u.username = v.username => u = v

\* ---------------------------------------------------------------- C4
\* C4: a mutation that fails leaves no record of its own in the store.
C4_FailedMutationPersistsNothing ==
    \A r \in Requests :
        (/\ pc[r] = "done"
         /\ op[r] \in Mutations
         /\ result[r].status = "error") => rows[r] \cap TableOf(op[r]) = {}

\* ---------------------------------------------------------------- C5
C5_Returned ==
    \A r \in Requests :
        (Done(r, "createArticle") /\ result[r].status = "ok") =>
            \E x \in articles :
                /\ result[r].data = {x}
                /\ x.id >= 1
                /\ x.title = arg[r].title
                /\ x.content = arg[r].content
                /\ x.category_id = arg[r].category_id
                /\ Len(Encode(x.content)) > 0
                /\ x.vector = JsonDumps(Encode(x.content))
                /\ \A y \in articles : y.id = x.id => y = x

C5_Steps ==
    \A r \in Requests :
        (op[r] = "createArticle" /\ pc[r] = "commit" /\ pc'[r] # "commit") =>
            /\ users' = users
            /\ categories' = categories
            /\ IF pc'[r] = "refresh"
               THEN \E x \in articles' \ articles :
                       /\ articles' = articles \cup {x}
                       /\ rows'[r] = {x}
                       /\ x.id >= 1
                       /\ \A y \in articles : y.id # x.id
                       /\ x.title = arg[r].title
                       /\ x.content = arg[r].content
                       /\ x.category_id = arg[r].category_id
                       /\ x.vector = JsonDumps(Encode(arg[r].content))
               ELSE articles' = articles
            /\ arg[r].category_id \in CategoryIds =>
                  \/ pc'[r] = "refresh"
                  \/ result'[r].error = "OperationalError"

\* C5: createArticle with the id of a stored category persists exactly one
\* new article (the store being reachable) and returns it: an id of its own,
\* distinct from every stored article's, the title, content and category id
\* given, and the serialized non-empty embedding of the content; no other
\* row of any table changes.
C5_CreateArticlePersistsOne == []C5_Returned /\ [][C5_Steps]_vars

\* A second article has been created and returned.
C5_Witness ==
    \E r \in Requests :
        /\ Done(r, "createArticle") /\ result[r].status = "ok"
        /\ Cardinality(articles) = 2

\* ---------------------------------------------------------------- C6
C6_Referential == \A a \in articles : a.category_id \in CategoryIds

C6_Steps ==
    /\ categories \subseteq categories'
    /\ \A r \in Requests :
          (/\ op[r] = "createArticle" /\ pc[r] = "commit" /\ pc'[r] # "commit"
           /\ arg[r].category_id \notin CategoryIds) =>
              /\ articles' = articles
              /\ pc'[r] = "done"
              /\ result'[r].status = "error"
              /\ result'[r].error \in {"IntegrityError", "OperationalError"}

\* C6: every stored article's category_id names a stored category;
\* createArticle with an id that names no stored category persists nothing
\* and ends in a store-level error; no step removes a category.
C6_ArticleCategoryExists == []C6_Referential /\ [][C6_Steps]_vars

\* An article is stored and a createArticle naming no category was rejected.
C6_Witness ==
    \E r \in Requests :
        /\ Done(r, "createArticle")
        /\ result[r].status = "error" /\ result[r].error = "IntegrityError"
        /\ articles # {}

\* ---------------------------------------------------------------- C7
\* C7: once a request has completed, its session is not open: it is out of
\* its scope and holds no connection.
C7_SessionReleasedAtCompletion ==
    \A r \in Requests : pc[r] = "done" => (sess[r] # "active" /\ ~conn[r])

\* ---------------------------------------------------------------- C8
\* Request r stands where its resolver issues a call through
\* info.context["db"].
AtStoreCall(r) ==
    \/ pc[r] \in {"commit", "refresh"}
    \/ pc[r] = op[r] /\ op[r] \in {"listArticles", "getArticle", "listCategories", "createCategory"}

\* C8: wherever a resolver issues a read, add, commit or refresh, the session
\* get_context handed it has been acquired and not yet released.
C8_SessionOpenInResolver ==
    \A r \in Requests : AtStoreCall(r) => sess[r] = "active"

\* ---------------------------------------------------------------- C9
\* C9: while a request is inside the embedding computation or the password
\* hashing, every other request in flight can take a step.
C9_OthersProceedDuringBlockingCall ==
    \A r, q \in Requests :
        (/\ pc[r] \in {"embedding", "hashing"}
         /\ q # r
         /\ pc[q] \notin {"idle", "done"}) => ENABLED (Accounts(q) \/ Content(q))

\* ---------------------------------------------------------------- C10
C10_Accepted == \A t \in issued : StoredUsersNamed({t}) # {} /\ JwtDecodes(t)

C10_Steps ==
    /\ issued \subseteq issued'
    /\ users \subseteq users'
    /\ \A r \in Requests : \A t \in issued :
          (/\ pc[r] \in {"idle", "done"}
           /\ op'[r] = "protected"
           /\ arg'[r].authorization = {t}
           /\ <<op[r], arg[r], pc[r], rows[r], result[r]>>
                 # <<op'[r], arg'[r], pc'[r], rows'[r], result'[r]>>) =>
              \/ /\ pc'[r] = "auth_check"
                 /\ rows'[r] # {}
                 /\ \A u \in rows'[r] : u.username = t[2].sub
              \/ /\ pc'[r] = "done"
                 /\ result'[r].status = "500"
    /\ \A r \in Requests :
          (pc[r] = "auth_check" /\ rows[r] # {} /\ pc'[r] = "done") =>
              /\ result'[r].status = "200"
              /\ result'[r].user \in rows[r]

====
